---- MODULE Spec2Model ----
(***************************************************************************)
(* Model of the lab certificate subsystem of containerlab (cert/cert.go):  *)
(* CreateRootCA, GenerateRootCa, GenerateCert, RetrieveNodeCertData and    *)
(* writeCertFiles, acting on the on-disk certificate store.                *)
(*                                                                         *)
(* The store is the only shared state.  Callers are modelled as threads    *)
(* that run one operation at a time; an operation is cut at its file       *)
(* system calls, so that every interleaving of concurrent callers exists.  *)
(* Calling convention of the node lifecycle: GenerateCert is called with   *)
(* ca = labCARoot/root-ca.pem, caKey = labCARoot/root-ca-key.pem,          *)
(* input.Name = the node's short name and targetPath = labCADir/<name>.    *)
(***************************************************************************)
EXTENDS Integers, FiniteSets, Sequences, TLC

VARIABLES
  dirs,    \* directory name -> "absent" | "dir" | "file"
  files,   \* <<directory name, file name>> -> content (NoFile when absent)
  pc,      \* thread -> position inside its current operation
  call,    \* thread -> locals of its current operation
  last,    \* outcome of the call that returned most recently (NoCall once a new call starts)
  calls,   \* number of calls started so far
  parallel,\* TRUE: the caller runs calls concurrently; FALSE: it awaits each call
  hist,    \* what has happened in the run so far (see NoHist)
  issued,  \* node -> bundle persisted by its latest undisturbed successful issuance
  dep,     \* the deployment in progress (NoDeploy when calls are made freely)
  req      \* the certificate request of the issuance observed last (see NoReq)

vars == <<dirs, files, pc, call, last, calls, parallel, hist, issued, dep, req>>

\* ---------------------------------------------------------------- bounds
\* calls of a run whose caller awaits each call
MaxCalls == 3
\* calls of a run whose caller runs them concurrently
MaxParCalls == 2

\* ---------------------------------------------------------------- domains
Procs == {"t1", "t2"}
Nodes == {"r1", "r2"}
Kinds == {"srl", "linux"}
Root  == "labCARoot"
DirNames == {Root} \cup Nodes

\* File names inside a directory, relative to the files prefix
\* (root-ca for labCARoot, the node name for a node directory):
\* <prefix>.pem, <prefix>-key.pem, <prefix>.csr, and any other file.
PEM == ".pem"
KEY == "-key.pem"
CSR == ".csr"
OtherFile == "other"
FileNames == {PEM, KEY, CSR, OtherFile}
Paths == DirNames \X FileNames

\* ---------------------------------------------------------------- file contents
\* id 0 is material of an earlier run; ids 1..MaxCalls are the calls of this run.
NoFile == [t |-> "none", id |-> 0, signer |-> 0, issuer |-> 0]
Junk   == [t |-> "junk", id |-> 0, signer |-> 0, issuer |-> 0]
KeyOf(g) == [t |-> "key", id |-> g, signer |-> 0, issuer |-> 0]
CsrOf(g) == [t |-> "csr", id |-> g, signer |-> 0, issuer |-> 0]
\* a certificate for the public key of generation g, signed with key `k`,
\* naming the certificate `c` as issuer
CertOf(g, k, c) == [t |-> "cert", id |-> g, signer |-> k, issuer |-> c]

Certificates(cert, key, csr) == [Cert |-> cert, Key |-> key, Csr |-> csr]
NoCerts == Certificates(NoFile, NoFile, NoFile)

\* initca.New: a self-signed certificate, its CSR and its key
initcaNew(g) == Certificates(CertOf(g, g, g), KeyOf(g), CsrOf(g))

Exists(fs, d, f) == fs[<<d, f>>] # NoFile

\* ---------------------------------------------------------------- utils (file system)
\* utils.CreateDirectory: create-if-missing, no result
CreateDirectory(ds, d) ==
  IF ds[d] = "absent" THEN [ds EXCEPT ![d] = "dir"] ELSE ds

\* utils.CreateFile: unconditional overwrite of the file with the content.
\* It has no result: a failure (the parent is not a directory) is not
\* returned, it ends the call abnormally.
CanCreateFile(ds, d) == ds[d] = "dir"
CreateFile(fs, d, f, content) == [fs EXCEPT ![<<d, f>>] = content]

\* ---------------------------------------------------------------- pure parts of the code
\* CreateRootCA, the loop over the node set
rootCANeededOf_anyNode(ns) == DOMAIN ns # {}
rootCANeededOf(ns) == \E n \in DOMAIN ns : ns[n] = "srl"

\* CreateRootCA: "if both files exist skip root CA creation"
SkipRootCA_never(rootCaCertExists, rootCaKeyExists) == FALSE
SkipRootCA_certOnly(rootCaCertExists, rootCaKeyExists) == rootCaCertExists
SkipRootCA_inverted(rootCaCertExists, rootCaKeyExists) ==
  ~(rootCaCertExists /\ rootCaKeyExists)
SkipRootCA(rootCaCertExists, rootCaKeyExists) ==
  rootCaCertExists /\ rootCaKeyExists

\* universal.NewSigner on the two files: both must be readable and parse
SignerOk(fs) ==
  /\ fs[<<Root, PEM>>].t = "cert"
  /\ fs[<<Root, KEY>>].t = "key"

\* s.Sign: the leaf certificate is signed with the key of the key file and
\* names the certificate of the cert file as issuer
signCert_selfSigned(g, fs) == CertOf(g, g, g)
signCert(g, fs) == CertOf(g, fs[<<Root, KEY>>].id, fs[<<Root, PEM>>].id)

\* the directory of the call's filesPrefix: labCARoot for the root CA,
\* targetPath = labCADir/<name> for a node
TargetOf_root(op, n) == Root
TargetOf(op, n) == IF op = "CreateRootCA" THEN Root ELSE n
TargetDir(c) == TargetOf(c.op, c.node)

\* RetrieveNodeCertData as a function of the store: the bundle and the error
RetrieveNodeCertData_swapped(ds, fs, n) ==
  IF ds[n] # "dir" \/ ~Exists(fs, n, PEM) \/ ~Exists(fs, n, KEY)
  THEN [nil |-> TRUE, certs |-> NoCerts, err |-> "error"]
  ELSE [nil |-> FALSE,
        certs |-> Certificates(fs[<<n, KEY>>], fs[<<n, PEM>>], NoFile),
        err |-> "nil"]
RetrieveNodeCertData(ds, fs, n) ==
  IF ds[n] = "absent" THEN [nil |-> TRUE, certs |-> NoCerts, err |-> "error"]
  ELSE IF ds[n] # "dir" THEN [nil |-> TRUE, certs |-> NoCerts, err |-> "nil"]
  ELSE IF ~Exists(fs, n, PEM) THEN [nil |-> TRUE, certs |-> NoCerts, err |-> "error"]
  ELSE IF ~Exists(fs, n, KEY) THEN [nil |-> TRUE, certs |-> NoCerts, err |-> "error"]
  ELSE [nil |-> FALSE,
        certs |-> Certificates(fs[<<n, PEM>>], fs[<<n, KEY>>], NoFile),
        err |-> "nil"]

\* ---------------------------------------------------------------- call records
NoNode == "-"
NoNodes == <<>>
\* op, node, ns: the operation and its inputs; id: the number of the call;
\* certExists, keyExists, certs: locals of the code;
\* alone: no other call was active during this call;
\* clash: another call on the same target directory was active during it;
\* preDirs, preFiles: the store when the call started
IdleCall == [op |-> "none", node |-> NoNode, ns |-> NoNodes, id |-> 0,
             needed |-> FALSE, certExists |-> FALSE, keyExists |-> FALSE,
             certs |-> NoCerts, alone |-> TRUE, clash |-> FALSE,
             preDirs |-> <<>>, preFiles |-> <<>>]

\* the record of a finished call: err is "nil" or "error" for a call that
\* returned, "killed" or "panic" for one that did not; nil: no bundle returned;
\* generated: a bundle was generated
Outcome(c, err, isNil, generated) ==
  [op |-> c.op, node |-> c.node, ns |-> c.ns, id |-> c.id, needed |-> c.needed,
   certExists |-> c.certExists, keyExists |-> c.keyExists, certs |-> c.certs,
   alone |-> c.alone, clash |-> c.clash,
   preDirs |-> c.preDirs, preFiles |-> c.preFiles,
   err |-> err, nil |-> isNil, generated |-> generated]
NoCall == Outcome(IdleCall, "none", TRUE, FALSE)

\* rootGens: root bundles generated; bootOverlap: two CreateRootCA calls were
\* active together; bootIssueOverlap: a CreateRootCA and a GenerateCert call
\* were active together; rootInterrupted: a root persistence was interrupted
NoHist == [rootGens |-> 0, bootOverlap |-> FALSE, bootIssueOverlap |-> FALSE,
           rootInterrupted |-> FALSE]

\* the deployment of a lab: ns, its nodes and their kinds; booted: CreateRootCA
\* has been called; pending: the nodes not yet deployed; invoked: per node, the
\* GenerateCert calls made for it; failed: a call has failed
NoDeploy == [ns |-> NoNodes, booted |-> FALSE, pending |-> {}, invoked |-> <<>>,
             failed |-> FALSE]

\* the request of an issuance: tpl and input as given to GenerateCert; err:
\* rendering or parsing failed; CN, hosts: the parsed request; keyFails,
\* signFails: the key generation, the signing failed; san: the host list of
\* the signed certificate; warned: the no-hosts warning was logged
NoReq == [tpl |-> "none", input |-> <<>>, err |-> FALSE, CN |-> <<>>,
          hosts |-> <<>>, keyFails |-> FALSE, signFails |-> FALSE,
          san |-> <<>>, warned |-> FALSE]

Idle(p) == pc[p] = "idle"
OthersIdle(p) == \A q \in Procs \ {p} : Idle(q)
Active(op) == \E q \in Procs : ~Idle(q) /\ call[q].op = op

\* A call may start on a free thread; the threads are interchangeable, so a
\* call goes to "t1" when it is free.
CanStart(p) ==
  /\ Idle(p)
  /\ p = "t1" \/ ~Idle("t1")
  /\ parallel \/ OthersIdle(p)
  /\ calls < (IF parallel THEN MaxParCalls ELSE MaxCalls)

\* the locals of a call of thread p that starts now
NewCall(p, op, n, ns) ==
  [IdleCall EXCEPT !.op = op, !.node = n, !.ns = ns, !.id = calls + 1,
                   !.alone = OthersIdle(p),
                   !.clash = \E q \in Procs \ {p} :
                               ~Idle(q) /\ TargetDir(call[q]) = TargetOf(op, n),
                   !.preDirs = dirs, !.preFiles = files]

\* the other threads' records when a call of thread p on directory d starts
Disturb(p, d) ==
  [q \in Procs |->
     IF q = p \/ Idle(q) THEN call[q]
     ELSE [call[q] EXCEPT !.alone = FALSE,
                          !.clash = @ \/ TargetDir(call[q]) = d]]

Return(p, c, err, isNil, generated) ==
  /\ pc' = [pc EXCEPT ![p] = "idle"]
  /\ last' = Outcome(c, err, isNil, generated)

\* ---------------------------------------------------------------- initial states
\* The store as an earlier run may have left it: labCARoot absent, or present
\* with any of the root files absent, from the earlier run, or unparseable;
\* a node path absent, an empty directory, a directory holding some other
\* file, or a regular file (the nodes are interchangeable: r1 takes the
\* earlier state of NodeStates; a concurrent run starts with both node paths
\* in the same state).
InitRootFiles ==
  { f \in [{PEM, KEY, CSR} -> {NoFile, Junk, CertOf(0, 0, 0), KeyOf(0), CsrOf(0)}] :
      /\ f[PEM] \in {NoFile, Junk, CertOf(0, 0, 0)}
      /\ f[KEY] \in {NoFile, Junk, KeyOf(0)}
      /\ f[CSR] \in {NoFile, CsrOf(0)} }

NodeStates == <<"absent", "dir", "stray", "file">>
InitNodeStates ==
  { nd \in [Nodes -> DOMAIN NodeStates] : nd["r1"] <= nd["r2"] }

Init ==
  /\ parallel \in BOOLEAN
  /\ \E rd \in {"absent", "dir"}, rf \in InitRootFiles, nd \in InitNodeStates :
       /\ rd = "absent" => \A f \in DOMAIN rf : rf[f] = NoFile
       /\ parallel => nd["r1"] = nd["r2"]
       /\ dirs = [d \in DirNames |->
                    IF d = Root THEN rd
                    ELSE IF NodeStates[nd[d]] = "stray" THEN "dir"
                    ELSE NodeStates[nd[d]]]
       /\ files = [x \in Paths |->
                    IF x[1] = Root /\ x[2] \in DOMAIN rf THEN rf[x[2]]
                    ELSE IF /\ x[1] \in Nodes
                            /\ x[2] = OtherFile
                            /\ NodeStates[nd[x[1]]] = "stray" THEN Junk
                    ELSE NoFile]
  /\ pc = [p \in Procs |-> "idle"]
  /\ call = [p \in Procs |-> IdleCall]
  /\ last = NoCall
  /\ calls = 0
  /\ hist = NoHist
  /\ issued = [n \in Nodes |-> NoCerts]
  /\ dep = NoDeploy
  /\ req = NoReq

\* ---------------------------------------------------------------- CreateRootCA
\* lines 235-248: decide from the node set whether a root CA is needed;
\* when it is not, return nil before touching the store
CreateRootCA(p, ns) ==
  /\ CanStart(p)
  /\ calls' = calls + 1
  /\ LET c == [NewCall(p, "CreateRootCA", NoNode, ns) EXCEPT
                 !.needed = rootCANeededOf(ns)] IN
       IF ~c.needed
       THEN /\ Return(p, c, "nil", TRUE, FALSE)
            /\ call' = Disturb(p, NoNode)
            /\ UNCHANGED hist
       ELSE /\ pc' = [pc EXCEPT ![p] = "statCert"]
            /\ call' = [Disturb(p, Root) EXCEPT ![p] = c]
            /\ last' = NoCall
            /\ hist' = [hist EXCEPT
                          !.bootOverlap = @ \/ Active("CreateRootCA"),
                          !.bootIssueOverlap = @ \/ Active("GenerateCert")]
  /\ UNCHANGED <<dirs, files, parallel, issued>>

\* line 256: os.Stat(rootCaCertPath)
StatCert(p) ==
  /\ pc[p] = "statCert"
  /\ call' = [call EXCEPT ![p].certExists = Exists(files, Root, PEM)]
  /\ pc' = [pc EXCEPT ![p] = "statKey"]
  /\ UNCHANGED <<dirs, files, last, calls, parallel, hist, issued>>

\* lines 260-270: os.Stat(rootCaKeyPath); skip the creation when both exist
StatKey(p) ==
  /\ pc[p] = "statKey"
  /\ LET c == [call[p] EXCEPT !.keyExists = Exists(files, Root, KEY)] IN
       IF SkipRootCA(c.certExists, c.keyExists)
       THEN /\ Return(p, c, "nil", TRUE, FALSE)
            /\ call' = [call EXCEPT ![p] = IdleCall]
       ELSE /\ call' = [call EXCEPT ![p] = c]
            /\ pc' = [pc EXCEPT ![p] = "genRoot"]
            /\ UNCHANGED last
  /\ UNCHANGED <<dirs, files, calls, parallel, hist, issued>>

\* lines 272-282 and GenerateRootCa lines 104-131: create labCARoot, render and
\* parse the request, initca.New; a failure of any of them is returned
GenerateRootCa(p, fails) ==
  /\ pc[p] = "genRoot"
  /\ dirs' = CreateDirectory(dirs, Root)
  /\ IF fails
     THEN /\ Return(p, call[p], "error", TRUE, FALSE)
          /\ call' = [call EXCEPT ![p] = IdleCall]
          /\ UNCHANGED hist
     ELSE /\ call' = [call EXCEPT ![p].certs = initcaNew(call[p].id)]
          /\ pc' = [pc EXCEPT ![p] = "wPem"]
          /\ hist' = [hist EXCEPT !.rootGens = @ + 1]
          /\ UNCHANGED last
  /\ UNCHANGED <<files, calls, parallel, issued>>

\* ---------------------------------------------------------------- GenerateCert
\* lines 138-160: create the target directory, render and parse the request,
\* generate key and CSR; a failure is returned
GenerateCert(p, n, fails) ==
  /\ CanStart(p)
  /\ calls' = calls + 1
  /\ dirs' = CreateDirectory(dirs, n)
  /\ hist' = [hist EXCEPT !.bootIssueOverlap = @ \/ Active("CreateRootCA")]
  /\ LET c == [NewCall(p, "GenerateCert", n, NoNodes) EXCEPT !.needed = TRUE] IN
       IF fails
       THEN /\ Return(p, c, "error", TRUE, FALSE)
            /\ call' = Disturb(p, n)
       ELSE /\ call' = [Disturb(p, n) EXCEPT ![p] =
                          [c EXCEPT !.certs =
                             Certificates(NoFile, KeyOf(c.id), CsrOf(c.id))]]
            /\ pc' = [pc EXCEPT ![p] = "sign"]
            /\ last' = NoCall
  /\ UNCHANGED <<files, parallel, issued>>

\* lines 162-185: universal.NewSigner reads the CA certificate and key files,
\* s.Sign signs the CSR; a failure of either is returned
Sign_keyPersisted(p, fails) ==
  /\ pc[p] = "sign"
  /\ IF fails \/ ~SignerOk(files)
     THEN /\ Return(p, [call[p] EXCEPT !.certs = NoCerts], "error", TRUE, FALSE)
          /\ call' = [call EXCEPT ![p] = IdleCall]
          /\ files' = IF CanCreateFile(dirs, call[p].node)
                      THEN CreateFile(files, call[p].node, KEY, call[p].certs.Key)
                      ELSE files
     ELSE /\ call' = [call EXCEPT ![p].certs.Cert = signCert(call[p].id, files)]
          /\ pc' = [pc EXCEPT ![p] = "wPem"]
          /\ UNCHANGED <<last, files>>
  /\ UNCHANGED <<dirs, calls, parallel, hist, issued>>
Sign(p, fails) ==
  /\ pc[p] = "sign"
  /\ IF fails \/ ~SignerOk(files)
     THEN /\ Return(p, [call[p] EXCEPT !.certs = NoCerts], "error", TRUE, FALSE)
          /\ call' = [call EXCEPT ![p] = IdleCall]
     ELSE /\ call' = [call EXCEPT ![p].certs.Cert = signCert(call[p].id, files)]
          /\ pc' = [pc EXCEPT ![p] = "wPem"]
          /\ UNCHANGED last
  /\ UNCHANGED <<dirs, files, calls, parallel, hist, issued>>

\* ---------------------------------------------------------------- writeCertFiles
\* one utils.CreateFile of writeCertFiles: file f of the call's directory gets
\* the content and the call goes on at `next`; a node's earlier bundle is no
\* longer what its directory holds
WriteFile(p, f, content, next) ==
  LET d == TargetDir(call[p]) IN
    /\ issued' = [n \in Nodes |-> IF n = d THEN NoCerts ELSE issued[n]]
    /\ IF CanCreateFile(dirs, d)
       THEN /\ files' = CreateFile(files, d, f, content)
            /\ pc' = [pc EXCEPT ![p] = next]
            /\ UNCHANGED <<call, last>>
       ELSE /\ Return(p, call[p], "panic", TRUE, TRUE)
            /\ call' = [call EXCEPT ![p] = IdleCall]
            /\ UNCHANGED files
    /\ UNCHANGED <<dirs, calls, parallel, hist>>

\* line 229: utils.CreateFile(filesPrefix+".pem", certs.Cert)
WritePem_keyFirst(p) ==
  /\ pc[p] = "wPem"
  /\ WriteFile(p, KEY, call[p].certs.Key, "wKey")
WritePem(p) ==
  /\ pc[p] = "wPem"
  /\ WriteFile(p, PEM, call[p].certs.Cert, "wKey")

\* line 230: utils.CreateFile(filesPrefix+"-key.pem", certs.Key)
WriteKey(p) ==
  /\ pc[p] = "wKey"
  /\ WriteFile(p, KEY, call[p].certs.Key, "wCsr")

\* line 231: utils.CreateFile(filesPrefix+".csr", certs.Csr), and the return
\* of the bundle with a nil error (lines 133, 196, 284-287)
WriteCsr(p) ==
  /\ pc[p] = "wCsr"
  /\ LET c == call[p]
         d == TargetDir(c) IN
       IF CanCreateFile(dirs, d)
       THEN /\ files' = CreateFile(files, d, CSR, c.certs.Csr)
            /\ Return(p, c, "nil", c.op = "CreateRootCA", TRUE)
            /\ issued' = [n \in Nodes |->
                            IF n # d THEN issued[n]
                            ELSE IF c.clash THEN NoCerts ELSE c.certs]
       ELSE /\ Return(p, c, "panic", TRUE, TRUE)
            /\ UNCHANGED <<files, issued>>
  /\ call' = [call EXCEPT ![p] = IdleCall]
  /\ UNCHANGED <<dirs, calls, parallel, hist>>

\* the process is killed between two writes of writeCertFiles: the call
\* never returns
Interrupt(p) ==
  /\ pc[p] \in {"wKey", "wCsr"}
  /\ Return(p, call[p], "killed", TRUE, TRUE)
  /\ call' = [call EXCEPT ![p] = IdleCall]
  /\ hist' = [hist EXCEPT !.rootInterrupted = @ \/ call[p].op = "CreateRootCA"]
  /\ UNCHANGED <<dirs, files, calls, parallel, issued>>

\* ---------------------------------------------------------------- RetrieveNodeCertData
\* lines 201-226; the call reads and returns in one step
Retrieve(p, n) ==
  /\ CanStart(p)
  /\ calls' = calls + 1
  /\ LET r == RetrieveNodeCertData(dirs, files, n)
         c == [NewCall(p, "RetrieveNodeCertData", n, NoNodes) EXCEPT
                 !.certs = r.certs] IN
       Return(p, c, r.err, r.nil, FALSE)
  /\ call' = Disturb(p, NoNode)
  /\ UNCHANGED <<dirs, files, parallel, hist, issued>>

\* ---------------------------------------------------------------- specification
\* the node sets given to CreateRootCA: one of each shape up to the naming of
\* the nodes (no node, linux only, srl only, linux and srl)
NodeSets ==
  { ns \in UNION { [S -> Kinds] : S \in SUBSET Nodes } :
      "r2" \in DOMAIN ns => "r1" \in DOMAIN ns /\ ns["r1"] = "linux" }

\* the calls are made freely: no deployment, no request is observed
Free == UNCHANGED <<dep, req>>

Next ==
  \E p \in Procs :
    \/ \E ns \in NodeSets : CreateRootCA(p, ns) /\ Free
    \/ StatCert(p) /\ Free
    \/ StatKey(p) /\ Free
    \/ \E fails \in BOOLEAN : GenerateRootCa(p, fails) /\ Free
    \/ \E n \in Nodes, fails \in BOOLEAN : GenerateCert(p, n, fails) /\ Free
    \/ \E fails \in BOOLEAN : Sign(p, fails) /\ Free
    \/ WritePem(p) /\ Free
    \/ WriteKey(p) /\ Free
    \/ WriteCsr(p) /\ Free
    \/ Interrupt(p) /\ Free
    \/ \E n \in Nodes : Retrieve(p, n) /\ Free

Spec == Init /\ [][Next]_vars

\* ---------------------------------------------------------------- deployment
\* The node lifecycle deploys a lab on an empty store: it calls CreateRootCA
\* once with the lab's nodes, awaits it, then deploys the nodes one after the
\* other in any order.  The pre-deploy step of a node of kind srl calls
\* GenerateCert for the node; that of any other kind (vr-csr.go and the
\* vr_ftosv adapter, PreDeploy) creates the node's lab directory only and
\* leaves the certificate store alone.  A failed call ends the deployment.
DeployNodes == Nodes \cup {"r3"}
DeployDirs == {Root} \cup DeployNodes
Labs == UNION { [S -> Kinds] : S \in SUBSET DeployNodes }

IssuesCert(kind) == kind = "srl"

InitDeploy ==
  /\ parallel = FALSE
  /\ dirs = [d \in DeployDirs |-> "absent"]
  /\ files = [x \in DeployDirs \X FileNames |-> NoFile]
  /\ pc = [p \in Procs |-> "idle"]
  /\ call = [p \in Procs |-> IdleCall]
  /\ last = NoCall
  /\ calls = 0
  /\ hist = NoHist
  /\ issued = [n \in Nodes |-> NoCerts]
  /\ \E ns \in Labs :
       dep = [NoDeploy EXCEPT !.ns = ns, !.pending = DOMAIN ns,
                              !.invoked = [n \in DOMAIN ns |-> 0]]
  /\ req = NoReq

\* the deployment after a step of a call: a call that ended otherwise than
\* with a nil error has failed
Watch(d) ==
  [d EXCEPT !.failed = @ \/ (last' # last /\ last'.err \notin {"nil", "none"})]

DeployCreateRootCA ==
  /\ ~dep.booted
  /\ CreateRootCA("t1", dep.ns)
  /\ dep' = Watch([dep EXCEPT !.booted = TRUE])
  /\ UNCHANGED req

\* the steps of the call in progress
DeployStep(A) ==
  /\ A
  /\ dep' = Watch(dep)
  /\ UNCHANGED req

PreDeploy(n, fails) ==
  /\ dep.booted
  /\ ~dep.failed
  /\ Idle("t1")
  /\ n \in dep.pending
  /\ IF IssuesCert(dep.ns[n])
     THEN /\ GenerateCert("t1", n, fails)
          /\ dep' = Watch([dep EXCEPT !.pending = @ \ {n}, !.invoked[n] = @ + 1])
     ELSE /\ ~fails
          /\ dep' = [dep EXCEPT !.pending = @ \ {n}]
          /\ UNCHANGED <<dirs, files, pc, call, last, calls, parallel, hist, issued>>
  /\ UNCHANGED req

NextDeploy ==
  \/ DeployCreateRootCA
  \/ DeployStep(StatCert("t1"))
  \/ DeployStep(StatKey("t1"))
  \/ \E fails \in BOOLEAN : DeployStep(GenerateRootCa("t1", fails))
  \/ \E n \in DeployNodes, fails \in BOOLEAN : PreDeploy(n, fails)
  \/ \E fails \in BOOLEAN : DeployStep(Sign("t1", fails))
  \/ DeployStep(WritePem("t1"))
  \/ DeployStep(WriteKey("t1"))
  \/ DeployStep(WriteCsr("t1"))

SpecDeploy == InitDeploy /\ [][NextDeploy]_vars

\* ---------------------------------------------------------------- certificate request
\* A text is a sequence of characters.  A template is a sequence of literal
\* texts and fields; the templates below are the source's without white space
\* between the JSON tokens and without the members "key", "names" and "ca",
\* which hold no field.
Lit(t) == [k |-> "lit", v |-> t]
Field(f) == [k |-> "field", v |-> f]

rootCACSRTempl ==
  << Lit(<<"{", "\"", "C", "N", "\"", ":", "\"">>), Field("Prefix"),
     Lit(<<" ", "R", "o", "o", "t", " ", "C", "A", "\"", "}">>) >>

NodeCSRTempl ==
  << Lit(<<"{", "\"", "C", "N", "\"", ":", "\"">>), Field("Name"),
     Lit(<<".">>), Field("Prefix"),
     Lit(<<".", "i", "o", "\"", ",",
           "\"", "h", "o", "s", "t", "s", "\"", ":", "[", "\"">>),
     Field("Name"), Lit(<<"\"", ",", "\"">>),
     Field("LongName"), Lit(<<"\"", ",", "\"">>),
     Field("Fqdn"), Lit(<<"\"", "]", "}">>) >>

Templates == [root |-> rootCACSRTempl, node |-> NodeCSRTempl]

\* text/template Execute: the literals and the values of the fields, one after
\* the other; a value is written as it is
RECURSIVE Execute(_, _)
Execute(tpl, input) ==
  IF tpl = <<>> THEN <<>>
  ELSE LET h == Head(tpl) IN
         (IF h.k = "lit" THEN h.v ELSE input[h.v]) \o Execute(Tail(tpl), input)

\* json.Unmarshal into csr.CertificateRequest, for documents that are one
\* object whose members are strings or arrays of strings: the decoder's state
\* is its place in the document (st), the member name (key), the string and
\* the array being read (cur, items), and the fields CN and Hosts set so far.
\* A member named CN must be a string, one named hosts an array; the others
\* are skipped; a member given twice keeps the later value.
NoRequest == [st |-> "start", key |-> <<>>, cur |-> <<>>, items |-> <<>>,
              CN |-> <<>>, hosts |-> <<>>, err |-> FALSE]

SetMember(s, val, isArray) ==
  IF s.key = <<"C", "N">>
  THEN IF isArray THEN [s EXCEPT !.err = TRUE] ELSE [s EXCEPT !.CN = val]
  ELSE IF s.key = <<"h", "o", "s", "t", "s">>
  THEN IF isArray THEN [s EXCEPT !.hosts = val] ELSE [s EXCEPT !.err = TRUE]
  ELSE s

Decode(s, ch) ==
  LET to(st) == [s EXCEPT !.st = st]
      bad == [s EXCEPT !.err = TRUE] IN
    CASE s.st = "start" ->
           IF ch = "{" THEN to("first") ELSE bad
      [] s.st = "first" ->
           IF ch = "\"" THEN [to("inKey") EXCEPT !.cur = <<>>]
           ELSE IF ch = "}" THEN to("end") ELSE bad
      [] s.st = "key" ->
           IF ch = "\"" THEN [to("inKey") EXCEPT !.cur = <<>>] ELSE bad
      [] s.st = "inKey" ->
           IF ch = "\"" THEN [to("colon") EXCEPT !.key = s.cur]
           ELSE [s EXCEPT !.cur = Append(@, ch)]
      [] s.st = "colon" ->
           IF ch = ":" THEN to("value") ELSE bad
      [] s.st = "value" ->
           IF ch = "\"" THEN [to("inString") EXCEPT !.cur = <<>>]
           ELSE IF ch = "[" THEN [to("array") EXCEPT !.items = <<>>] ELSE bad
      [] s.st = "inString" ->
           IF ch = "\"" THEN SetMember(to("after"), s.cur, FALSE)
           ELSE [s EXCEPT !.cur = Append(@, ch)]
      [] s.st = "array" ->
           IF ch = "\"" THEN [to("inItem") EXCEPT !.cur = <<>>]
           ELSE IF ch = "]" THEN SetMember(to("after"), <<>>, TRUE) ELSE bad
      [] s.st = "item" ->
           IF ch = "\"" THEN [to("inItem") EXCEPT !.cur = <<>>] ELSE bad
      [] s.st = "inItem" ->
           IF ch = "\"" THEN [to("afterItem") EXCEPT !.items = Append(@, s.cur)]
           ELSE [s EXCEPT !.cur = Append(@, ch)]
      [] s.st = "afterItem" ->
           IF ch = "," THEN to("item")
           ELSE IF ch = "]" THEN SetMember(to("after"), s.items, TRUE) ELSE bad
      [] s.st = "after" ->
           IF ch = "," THEN to("key")
           ELSE IF ch = "}" THEN to("end") ELSE bad
      [] OTHER -> bad

\* the decoder's state after the characters i, i+1, ... of the text
RECURSIVE DecodeFrom(_, _, _)
DecodeFrom(s, text, i) ==
  IF i > Len(text) \/ s.err THEN s
  ELSE DecodeFrom(Decode(s, text[i]), text, i + 1)

Unmarshal(text) ==
  LET s == DecodeFrom(NoRequest, text, 1) IN
    [err |-> s.err \/ s.st # "end", CN |-> s.CN, hosts |-> s.hosts]

\* line 156: genkey.Validator, the validator of the request, accepts every
\* request
Validator_rejectsNoHosts(r) == r.hosts # <<>>
Validator(r) == TRUE

\* lines 179-181: the sign request carries the CSR only
SignReqHosts == <<>>

\* the inputs of GenerateCert for node n: Name is the node's name, LongName
\* and Fqdn are any texts, with or without a quote
NameOf == [r1 |-> <<"r", "1">>, r2 |-> <<"r", "2">>]
LongNames == { <<"l">>, <<"l", "\"", ",", "\"", "x">>, <<"l", "\"">> }
Fqdns == { <<"f">>, <<"l">> }
HostLists == { <<>>, << <<"h">> >> }
CertInput(n) ==
  { [Hosts |-> h, Name |-> NameOf[n], LongName |-> l, Fqdn |-> f,
     Prefix |-> <<"c">>] : h \in HostLists, l \in LongNames, f \in Fqdns }

\* the store before the issuances: the root pair of an earlier bootstrap, or
\* nothing
InitIssue ==
  /\ parallel = FALSE
  /\ \E rooted \in BOOLEAN :
       /\ dirs = [d \in DirNames |->
                    IF d = Root /\ rooted THEN "dir" ELSE "absent"]
       /\ files = [x \in Paths |->
                    IF x[1] = Root /\ rooted /\ x[2] \in {PEM, KEY, CSR}
                    THEN initcaNew(0)[IF x[2] = PEM THEN "Cert"
                                     ELSE IF x[2] = KEY THEN "Key" ELSE "Csr"]
                    ELSE NoFile]
  /\ pc = [p \in Procs |-> "idle"]
  /\ call = [p \in Procs |-> IdleCall]
  /\ last = NoCall
  /\ calls = 0
  /\ hist = NoHist
  /\ issued = [n \in Nodes |-> NoCerts]
  /\ dep = NoDeploy
  /\ req = NoReq

\* lines 140-153: the request parsed from the template executed on the input
RequestOf ==
  [tpl \in DOMAIN Templates |->
     [input \in UNION {CertInput(n) : n \in Nodes} |->
        Unmarshal(Execute(Templates[tpl], input))]]

\* lines 138-160 with the request: the template is executed on the input, the
\* text is parsed, gen.ProcessRequest validates the request and generates key
\* and CSR; a failure of any of them is returned
IssueCert(n, tpl, input, keyFails) ==
  LET r == RequestOf[tpl][input] IN
    /\ GenerateCert("t1", n, r.err \/ ~Validator(r) \/ keyFails)
    /\ req' = [NoReq EXCEPT !.tpl = tpl, !.input = input, !.err = r.err,
                            !.CN = r.CN, !.hosts = r.hosts,
                            !.keyFails = keyFails]
    /\ UNCHANGED dep

\* lines 162-188 with the request: the certificate gets the hosts of the sign
\* request or else those of the CSR; when both are empty the warning
\* CSRNoHostMessage is logged
SignCert(fails) ==
  /\ Sign("t1", fails)
  /\ LET signed == ~fails /\ SignerOk(files) IN
       req' = [req EXCEPT
                 !.signFails = fails,
                 !.san = IF ~signed THEN <<>>
                         ELSE IF Len(SignReqHosts) = 0 THEN req.hosts
                         ELSE SignReqHosts,
                 !.warned = /\ signed
                            /\ Len(SignReqHosts) = 0
                            /\ Len(req.hosts) = 0]
  /\ UNCHANGED dep

NextIssue ==
  \/ \E n \in Nodes, tpl \in DOMAIN Templates, keyFails \in BOOLEAN :
       \E input \in CertInput(n) : IssueCert(n, tpl, input, keyFails)
  \/ \E fails \in BOOLEAN : SignCert(fails)
  \/ WritePem("t1") /\ Free
  \/ WriteKey("t1") /\ Free
  \/ WriteCsr("t1") /\ Free

SpecIssue == InitIssue /\ [][NextIssue]_vars

\* ================================================================ claims
BothRootFiles(fs) == Exists(fs, Root, PEM) /\ Exists(fs, Root, KEY)
StoreUnchangedSince(l) == files = l.preFiles /\ dirs = l.preDirs

\* C1: a CreateRootCA call for a node set that requires a CA, started when
\* root-ca.pem and root-ca-key.pem both exist (whatever they hold) and run
\* with no other call beside it, returns nil and leaves the whole store as it
\* was when the call started.
C1_Idempotent ==
  ( /\ last.op = "CreateRootCA"
    /\ last.needed
    /\ last.alone
    /\ BothRootFiles(last.preFiles) )
  => /\ last.err = "nil"
     /\ ~last.generated
     /\ StoreUnchangedSince(last)

\* C1 witness: such a call has returned on a store whose root certificate
\* file holds unparseable content and has no root-ca.csr
C1_Witness ==
  /\ last.op = "CreateRootCA"
  /\ last.needed
  /\ last.alone
  /\ last.err = "nil"
  /\ last.preFiles[<<Root, PEM>>] = Junk
  /\ Exists(last.preFiles, Root, KEY)
  /\ ~Exists(last.preFiles, Root, CSR)

\* the kinds that require a CA
CAKinds == {"srl"}
RequiresCA(ns) == \E n \in DOMAIN ns : ns[n] \in CAKinds

\* C2: a CreateRootCA call goes on to the root files iff its node set has a
\* node of a kind that requires a CA; a call whose node set has none returns
\* nil in the step it starts in, and that step generates nothing and changes
\* no file and no directory.
C2_Gating ==
  /\ [](\A p \in Procs :
          ~Idle(p) /\ call[p].op = "CreateRootCA" => RequiresCA(call[p].ns))
  /\ [](last.op = "CreateRootCA" => (last.needed <=> RequiresCA(last.ns)))
  /\ [][ ( /\ last' # last
           /\ last'.op = "CreateRootCA"
           /\ ~RequiresCA(last'.ns) )
         => /\ last'.err = "nil"
            /\ ~last'.generated
            /\ last'.id = calls + 1
            /\ hist'.rootGens = hist.rootGens
            /\ files' = files
            /\ dirs' = dirs ]_vars

\* C2 witness: a call for a non-empty node set without such a node has
\* returned on a store that lacks the root pair
C2_Witness ==
  /\ last.op = "CreateRootCA"
  /\ last.ns # NoNodes
  /\ ~RequiresCA(last.ns)
  /\ last.err = "nil"
  /\ ~BothRootFiles(files)
  /\ dirs[Root] = "absent"

\* a leaf certificate verifies against the root pair of the store: it was
\* signed with the key of root-ca-key.pem, which is the key of the certificate
\* in root-ca.pem, and names that certificate as issuer
ChainsToRoot(c, fs) ==
  /\ c.t = "cert"
  /\ fs[<<Root, KEY>>] = KeyOf(c.signer)
  /\ fs[<<Root, PEM>>].t = "cert"
  /\ fs[<<Root, PEM>>].id = c.signer
  /\ fs[<<Root, PEM>>].id = c.issuer

\* bootstrap calls ran one at a time, never beside an issuance, and none was
\* interrupted
BootstrapAwaited ==
  /\ ~hist.bootOverlap
  /\ ~hist.bootIssueOverlap
  /\ ~hist.rootInterrupted

\* C3: as long as every bootstrap was completed before another bootstrap or an
\* issuance started, the certificate returned by a successful GenerateCert and
\* every node certificate file of the store verify against the root pair of
\* the store.
C3_ChainValid ==
  BootstrapAwaited =>
    /\ (last.op = "GenerateCert" /\ last.err = "nil"
          => ChainsToRoot(last.certs.Cert, files))
    /\ \A n \in Nodes : Exists(files, n, PEM) => ChainsToRoot(files[<<n, PEM>>], files)

\* C3 witness: an issuance has succeeded under a root generated in this run
C3_Witness ==
  /\ BootstrapAwaited
  /\ last.op = "GenerateCert"
  /\ last.err = "nil"
  /\ last.certs.Cert.signer > 0
  /\ files[<<last.node, PEM>>] = last.certs.Cert

\* a retrieval for node n misses in store (ds, fs)
RetrievalMiss(ds, fs, n) ==
  \/ ds[n] # "dir"
  \/ ~Exists(fs, n, PEM)
  \/ ~Exists(fs, n, KEY)

\* C4: a RetrieveNodeCertData call whose node directory is not an existing
\* directory, or lacks <name>.pem or <name>-key.pem, returns an error, and no
\* retrieval changes the store.
C4_RetrievalMiss ==
  last.op = "RetrieveNodeCertData" =>
    /\ RetrievalMiss(last.preDirs, last.preFiles, last.node) => last.err = "error"
    /\ last.alone => StoreUnchangedSince(last)

\* directory n is absent or holds no file in store (ds, fs)
AbsentOrEmpty(ds, fs, n) ==
  /\ ds[n] \in {"absent", "dir"}
  /\ \A f \in FileNames : ~Exists(fs, n, f)

\* C5: a successful GenerateCert for node N, run with no other call beside it
\* from a store where labCADir/N is absent or empty, leaves in labCADir/N
\* exactly N.pem, N-key.pem and N.csr, holding the returned bundle, and
\* changes nothing outside that directory.
C5_Layout ==
  ( /\ last.op = "GenerateCert"
    /\ last.err = "nil"
    /\ last.alone
    /\ AbsentOrEmpty(last.preDirs, last.preFiles, last.node) )
  => /\ dirs[last.node] = "dir"
     /\ \A f \in FileNames : Exists(files, last.node, f) <=> f \in {PEM, KEY, CSR}
     /\ files[<<last.node, PEM>>] = last.certs.Cert
     /\ files[<<last.node, KEY>>] = last.certs.Key
     /\ files[<<last.node, CSR>>] = last.certs.Csr
     /\ \A x \in Paths : x[1] # last.node => files[x] = last.preFiles[x]
     /\ \A d \in DirNames : d # last.node => dirs[d] = last.preDirs[d]

\* C5 witness: such an issuance has succeeded in a directory it created
C5_Witness ==
  /\ last.op = "GenerateCert"
  /\ last.err = "nil"
  /\ last.alone
  /\ last.preDirs[last.node] = "absent"
  /\ Exists(files, last.node, CSR)

\* thread p is inside CreateRootCA past its existence check: it generates or
\* writes a root bundle
Generating(p) ==
  /\ call[p].op = "CreateRootCA"
  /\ pc[p] \in {"genRoot", "wPem", "wKey", "wCsr"}

\* C6: a CreateRootCA call generates and writes a root bundle on the strength
\* of its own earlier observation that a root file was missing, whatever the
\* store holds by then; the witness is the race: two calls have both observed
\* both files missing and both have written a root certificate and key.
C6_StaleCheck ==
  \A p \in Procs :
    Generating(p) => ~(call[p].certExists /\ call[p].keyExists)

\* C6 witness: both threads are in CreateRootCA, each saw both root files
\* missing, each has written its root-ca.pem and root-ca-key.pem
C6_Race ==
  \A p \in Procs :
    /\ call[p].op = "CreateRootCA"
    /\ pc[p] = "wCsr"
    /\ ~call[p].certExists
    /\ ~call[p].keyExists
    /\ ~Exists(call[p].preFiles, Root, PEM)
    /\ ~Exists(call[p].preFiles, Root, KEY)

\* bootstrap calls ran one at a time and none was interrupted
BootstrapSerial ==
  /\ ~hist.bootOverlap
  /\ ~hist.rootInterrupted

\* C7: when bootstrap calls do not overlap and none is interrupted, a root CA
\* is generated at most once; and root-ca.pem and root-ca-key.pem are only
\* ever changed by a CreateRootCA call that started while one of them was
\* missing, so no call that starts once both exist changes them.
C7_OneRootCA ==
  /\ [](BootstrapSerial => hist.rootGens <= 1)
  /\ [][ \A f \in {PEM, KEY} :
           files'[<<Root, f>>] # files[<<Root, f>>] =>
             \E p \in Procs :
               /\ pc'[p] # pc[p]
               /\ call[p].op = "CreateRootCA"
               /\ ~BothRootFiles(call[p].preFiles) ]_vars

\* C7 witness: after the one generation of the run, a later CreateRootCA call
\* has found the generated pair and returned
C7_Witness ==
  /\ BootstrapSerial
  /\ hist.rootGens = 1
  /\ last.op = "CreateRootCA"
  /\ last.needed
  /\ last.err = "nil"
  /\ ~last.generated
  /\ last.preFiles[<<Root, PEM>>].id > 0
  /\ files[<<Root, KEY>>] = KeyOf(files[<<Root, PEM>>].id)

\* the store holds bundle b as the three files of node n
HoldsBundle(fs, n, b) ==
  /\ fs[<<n, PEM>>] = b.Cert
  /\ fs[<<n, KEY>>] = b.Key
  /\ fs[<<n, CSR>>] = b.Csr

\* C8: under every interleaving, a step changes files only in the target
\* directory of the call that takes it, so issuances for distinct nodes write
\* disjoint files and none changes a root file; and the three files of a node
\* whose issuance succeeded with no other call on its directory hold the
\* bundle of that one issuance.
C8_ParallelIssuance ==
  /\ [](last.op = "GenerateCert" /\ last.err = "nil" /\ ~last.clash
          => HoldsBundle(files, last.node, last.certs))
  /\ [](\A n \in Nodes :
          issued[n] # NoCerts =>
            /\ HoldsBundle(files, n, issued[n])
            /\ issued[n].Key.id = issued[n].Cert.id
            /\ issued[n].Csr.id = issued[n].Cert.id)
  /\ [][ \A x \in Paths :
           files'[x] # files[x] =>
             \E p \in Procs :
               /\ pc'[p] # pc[p]
               /\ ~Idle(p)
               /\ x[1] = TargetDir(call[p])
               /\ call[p].op = "GenerateCert" => x[1] = call[p].node /\ x[1] # Root ]_vars

\* C8 witness: two issuances for distinct nodes overlapped and both have
\* finished; each node's directory holds its own bundle
C8_Witness ==
  /\ parallel
  /\ \A p \in Procs : Idle(p)
  /\ last.op = "GenerateCert"
  /\ last.err = "nil"
  /\ ~last.alone
  /\ \A n \in Nodes : issued[n] # NoCerts /\ HoldsBundle(files, n, issued[n])
  /\ issued["r1"].Cert.id # issued["r2"].Cert.id

\* a step of the finished call l failed: a retrieval found its directory or
\* one of its files missing, an issuance run alone found no usable root pair
\* for its signer, or a file write failed
StepFailed(l) ==
  \/ l.op = "RetrieveNodeCertData" /\ RetrievalMiss(l.preDirs, l.preFiles, l.node)
  \/ l.op = "GenerateCert" /\ l.alone /\ ~SignerOk(l.preFiles)
  \/ l.err = "panic"

\* C9: every call in which a step failed returns an error to its caller.
C9_AllErrorsPropagate ==
  StepFailed(last) => last.err = "error"

\* C10: a retrieval for a node whose latest issuance succeeded, with no write
\* to its directory since, returns exactly the certificate and the key that
\* issuance persisted.
C10_RoundTrip ==
  ( /\ last.op = "RetrieveNodeCertData"
    /\ issued[last.node] # NoCerts )
  => /\ last.err = "nil"
     /\ ~last.nil
     /\ last.certs.Cert = issued[last.node].Cert
     /\ last.certs.Key = issued[last.node].Key
     /\ last.certs.Cert.t = "cert"
     /\ last.certs.Key = KeyOf(last.certs.Cert.id)

\* C10 witness: a retrieval has returned the issued material, and it is not
\* the first call after the issuance
C10_Witness ==
  /\ last.op = "RetrieveNodeCertData"
  /\ issued[last.node] # NoCerts
  /\ ~last.nil
  /\ last.certs.Cert = issued[last.node].Cert
  /\ last.id > issued[last.node].Cert.id + 1

\* the finished CreateRootCA call l went into GenerateRootCa
AttemptedRoot(l) == l.generated \/ l.err = "error"

\* C13: a CreateRootCA call for a node set that requires a CA, run with no
\* other call beside it, goes into root generation iff root-ca.pem or
\* root-ca-key.pem is missing when it starts; when it generates and returns,
\* root-ca.pem, root-ca-key.pem and root-ca.csr all exist and hold the bundle
\* of that one generation, whose certificate and key match.
C13_CompletesPair ==
  ( /\ last.op = "CreateRootCA"
    /\ last.needed
    /\ last.alone )
  => /\ AttemptedRoot(last) <=> ~BothRootFiles(last.preFiles)
     /\ (last.err = "nil" /\ last.generated) =>
          /\ last.certs = initcaNew(last.id)
          /\ HoldsBundle(files, Root, last.certs)
          /\ \A f \in {PEM, KEY, CSR} : Exists(files, Root, f)
          /\ files[<<Root, KEY>>] = KeyOf(files[<<Root, PEM>>].signer)

\* C13 witness: the call found only the key of an earlier run and has
\* replaced it by the key of its own generation
C13_Witness ==
  /\ last.op = "CreateRootCA"
  /\ last.alone
  /\ last.err = "nil"
  /\ last.generated
  /\ ~Exists(last.preFiles, Root, PEM)
  /\ last.preFiles[<<Root, KEY>>] = KeyOf(0)
  /\ files[<<Root, KEY>>] = KeyOf(last.id)

\* the root certificate and key of store fs are of different generations
Mismatched(fs) ==
  /\ fs[<<Root, PEM>>].t = "cert"
  /\ fs[<<Root, KEY>>].t = "key"
  /\ fs[<<Root, PEM>>].id # fs[<<Root, KEY>>].id

\* C14: writeCertFiles writes the certificate, then the key, then the CSR:
\* before the key write the directory holds the new certificate beside the
\* key and CSR it held when the call started; an interruption changes nothing
\* in the store (no rollback); and a CreateRootCA call that finds a root
\* certificate and key of different generations returns nil without
\* generating and without changing the store.
C14_PartialWrite ==
  /\ [](\A p \in Procs :
          (~Idle(p) /\ ~call[p].clash) =>
            LET d == TargetDir(call[p])
                c == call[p] IN
              /\ pc[p] = "wKey" =>
                   /\ files[<<d, PEM>>] = c.certs.Cert
                   /\ files[<<d, KEY>>] = c.preFiles[<<d, KEY>>]
                   /\ files[<<d, CSR>>] = c.preFiles[<<d, CSR>>]
              /\ pc[p] = "wCsr" =>
                   /\ files[<<d, PEM>>] = c.certs.Cert
                   /\ files[<<d, KEY>>] = c.certs.Key
                   /\ files[<<d, CSR>>] = c.preFiles[<<d, CSR>>])
  /\ [][ (last' # last /\ last'.err = "killed") =>
           (files' = files /\ dirs' = dirs) ]_vars
  /\ []( ( /\ last.op = "CreateRootCA"
           /\ last.needed
           /\ last.alone
           /\ Mismatched(last.preFiles) )
         => /\ last.err = "nil"
            /\ ~last.generated
            /\ StoreUnchangedSince(last) )

\* C14 witness: a regenerating bootstrap was interrupted after it wrote
\* root-ca.pem beside the key of an earlier run, and a later CreateRootCA call
\* has returned nil on that store
C14_Witness ==
  /\ hist.rootInterrupted
  /\ last.op = "CreateRootCA"
  /\ last.needed
  /\ last.err = "nil"
  /\ ~last.generated
  /\ files[<<Root, PEM>>].id > 0
  /\ files[<<Root, KEY>>] = KeyOf(0)
  /\ Mismatched(files)

\* C15: a CreateRootCA or GenerateCert call that returns an error, run with no
\* other call beside it, returns no bundle and has created or changed no
\* file; the only directory it can have changed is its own target directory,
\* from absent to an empty directory.
C15_FailedCallWritesNothing ==
  ( /\ last.op \in {"CreateRootCA", "GenerateCert"}
    /\ last.err = "error"
    /\ last.alone )
  => /\ last.nil
     /\ files = last.preFiles
     /\ \A d \in DOMAIN dirs :
          dirs[d] # last.preDirs[d] =>
            /\ d = TargetDir(last)
            /\ last.preDirs[d] = "absent"
            /\ dirs[d] = "dir"

\* C15 witness: an issuance attempted without a usable root pair has returned
\* an error after creating its target directory
C15_Witness ==
  /\ last.op = "GenerateCert"
  /\ last.err = "error"
  /\ last.alone
  /\ ~Exists(last.preFiles, Root, KEY)
  /\ last.preDirs[last.node] = "absent"
  /\ dirs[last.node] = "dir"

\* the nodes of the lab whose kind requires a CA, and the files of the store
CANodes == {n \in DOMAIN dep.ns : dep.ns[n] \in CAKinds}
StoreFiles == {x \in DOMAIN files : files[x] # NoFile}
DeployDone == dep.booted /\ dep.pending = {} /\ Idle("t1")

\* C11: in a deployment from an empty store no GenerateCert call is ever made
\* for a node whose kind does not require a CA, and none twice for a node; when
\* the deployment has finished without a failure and k >= 1 of its nodes
\* require a CA, GenerateCert has been called exactly once for each of the k
\* nodes, one root bundle has been generated, and the store holds exactly
\* 3 + 3k files: root-ca.pem, root-ca-key.pem, root-ca.csr and the three files
\* of each of the k nodes.
C11_FileCount ==
  /\ \A n \in DOMAIN dep.ns :
       dep.invoked[n] <= (IF n \in CANodes THEN 1 ELSE 0)
  /\ (DeployDone /\ ~dep.failed /\ CANodes # {}) =>
       /\ \A n \in CANodes : dep.invoked[n] = 1
       /\ hist.rootGens = 1
       /\ Cardinality(StoreFiles) = 3 + 3 * Cardinality(CANodes)
       /\ StoreFiles = ({Root} \cup CANodes) \X {PEM, KEY, CSR}

\* C11 witness: the lab r1 (no CA), r2, r3 (CA required) has been deployed
\* and the store holds nine files
C11_Witness ==
  /\ DeployDone
  /\ ~dep.failed
  /\ DOMAIN dep.ns = DeployNodes
  /\ dep.ns["r1"] = "linux"
  /\ CANodes = {"r2", "r3"}
  /\ Cardinality(StoreFiles) = 9

Range(q) == {q[i] : i \in DOMAIN q}

\* C12: the host list of a request rendered from the node CSR template and
\* parsed, and the host list of the certificate signed for it, hold exactly
\* the values Name, LongName and Fqdn of the input.
C12_SanExact ==
  (req.tpl = "node" /\ ~req.err) =>
    LET names == {req.input.Name, req.input.LongName, req.input.Fqdn} IN
      /\ Range(req.hosts) = names
      /\ (last.op = "GenerateCert" /\ last.err = "nil") => Range(req.san) = names

\* C16: a GenerateCert call whose request parsed ends with a nil error iff the
\* key generation and the signing did not fail and the root pair was usable,
\* whether the request's host list is empty or not; it then returns the bundle
\* of its own key, CSR and certificate signed by the root, and the node's three
\* files hold it.  The warning is logged iff such a call succeeds with an
\* empty host list.
C16_EmptyHostsTolerated ==
  (last.op = "GenerateCert" /\ req.tpl # "none" /\ ~req.err) =>
    /\ last.err \in {"nil", "error"}
    /\ last.err = "nil" <=>
         (~req.keyFails /\ ~req.signFails /\ SignerOk(last.preFiles))
    /\ last.err = "nil" =>
         /\ ~last.nil
         /\ last.certs = Certificates(signCert(last.id, files),
                                      KeyOf(last.id), CsrOf(last.id))
         /\ HoldsBundle(files, last.node, last.certs)
         /\ ChainsToRoot(last.certs.Cert, files)
    /\ req.warned <=> (last.err = "nil" /\ req.hosts = <<>>)

\* C16 witness: an issuance whose request has no host has returned its bundle
\* with a nil error, written the three files and logged the warning
C16_Witness ==
  /\ last.op = "GenerateCert"
  /\ ~req.err
  /\ req.hosts = <<>>
  /\ last.err = "nil"
  /\ ~last.nil
  /\ HoldsBundle(files, last.node, last.certs)
  /\ req.warned

====
